---- MODULE Spec2Model ----
(***************************************************************************)
(* A model of the product Q&A engine of rapidmed-qa: the ProductQASystem   *)
(* class of qa_engine.py (catalog index, product resolution, attribute     *)
(* classification and extraction, answer()) and the /ask and /reload       *)
(* handlers of app.py that share one instance of it.                       *)
(*                                                                         *)
(* Python strings are sequences of one-character strings, so that          *)
(* lower(), strip(), the substring tests and the regular expressions are   *)
(* computed character by character.  An optional value (None, NaN) is a    *)
(* sequence of length 0, a present value x the sequence <<x>>.             *)
(***************************************************************************)
EXTENDS Integers, Sequences, FiniteSets, TLC

\* ------------------------------------------------------------------------
\* Characters and strings
\* ------------------------------------------------------------------------

LowerLetters ==
  <<"a","b","c","d","e","f","g","h","i","j","k","l","m",
    "n","o","p","q","r","s","t","u","v","w","x","y","z">>

UpperLetters ==
  <<"A","B","C","D","E","F","G","H","I","J","K","L","M",
    "N","O","P","Q","R","S","T","U","V","W","X","Y","Z">>

DigitChars == <<"0","1","2","3","4","5","6","7","8","9">>

\* The characters the model's strings use, in code point order (str
\* comparison, which orders the groups of groupby, is by code point).
CodePoints ==
  <<"\t", "\n", " ", "*", "-", ".", "/">> \o DigitChars \o <<":", ";", "<", ">", "?">>
    \o UpperLetters \o <<"\\">> \o LowerLetters

Range(f) == {f[i] : i \in DOMAIN f}

IsDigit(c) == c \in Range(DigitChars)
IsUpper(c) == c \in Range(UpperLetters)
IsLower(c) == c \in Range(LowerLetters)
IsSpace(c) == c \in {" ", "\t", "\n"}

IndexIn(seq, c) == CHOOSE i \in DOMAIN seq : seq[i] = c

Ord(c) == IndexIn(CodePoints, c)

DigitVal(c) == IndexIn(DigitChars, c) - 1

\* str.lower() on one character, and ignore-case equality of characters.
LowerChar(c) == IF IsUpper(c) THEN LowerLetters[IndexIn(UpperLetters, c)] ELSE c

Lower(s) == [i \in DOMAIN s |-> LowerChar(s[i])]

\* s[a-1:b-1] of Python, 1-based and inclusive here; empty when a > b.
Slice(s, a, b) == IF a > b THEN <<>> ELSE SubSeq(s, a, b)

\* s[:n] of Python.
Take(s, n) == IF n >= Len(s) THEN s ELSE SubSeq(s, 1, n)

\* str.strip(): leading and trailing whitespace removed.
Strip(s) ==
  LET keep == {i \in DOMAIN s : ~IsSpace(s[i])}
  IN  IF keep = {} THEN <<>>
      ELSE LET lo == CHOOSE i \in keep : \A j \in keep : i <= j
               hi == CHOOSE i \in keep : \A j \in keep : i >= j
           IN  SubSeq(s, lo, hi)

\* lit occurs in s at position i (1-based).
StartsAt(s, i, lit) ==
  /\ i >= 1
  /\ i + Len(lit) - 1 <= Len(s)
  /\ \A k \in 1..Len(lit) : s[i + k - 1] = lit[k]

\* The same, ignoring case (re.I); lit is given in lower case.
StartsAtI(s, i, lit) ==
  /\ i >= 1
  /\ i + Len(lit) - 1 <= Len(s)
  /\ \A k \in 1..Len(lit) : LowerChar(s[i + k - 1]) = lit[k]

\* "k in s" of Python on strings.
Contains(s, lit) == \E i \in 1..(Len(s) - Len(lit) + 1) : StartsAt(s, i, lit)

\* str < str of Python: by code point, a proper prefix first.
RECURSIVE StrLess(_, _)
StrLess(a, b) ==
  IF b = <<>> THEN FALSE
  ELSE IF a = <<>> THEN TRUE
  ELSE IF a[1] # b[1] THEN Ord(a[1]) < Ord(b[1])
  ELSE StrLess(Tail(a), Tail(b))

\* " ".join(parts)
RECURSIVE JoinSpace(_)
JoinSpace(parts) ==
  IF parts = <<>> THEN <<>>
  ELSE IF Len(parts) = 1 THEN parts[1]
  ELSE parts[1] \o <<" ">> \o JoinSpace(Tail(parts))

\* The distinct elements of a sequence in order of first appearance
\* (Series.unique()).
RECURSIVE UniqueFrom(_, _)
UniqueFrom(seq, seen) ==
  IF seq = <<>> THEN <<>>
  ELSE IF seq[1] \in seen THEN UniqueFrom(Tail(seq), seen)
  ELSE <<seq[1]>> \o UniqueFrom(Tail(seq), seen \cup {seq[1]})

Unique(seq) == UniqueFrom(seq, {})

\* The present values of a sequence of optional values (Series.dropna()).
RECURSIVE DropNa(_)
DropNa(seq) ==
  IF seq = <<>> THEN <<>>
  ELSE (IF seq[1] = <<>> THEN <<>> ELSE <<seq[1][1]>>) \o DropNa(Tail(seq))

Max(a, b) == IF a >= b THEN a ELSE b

\* ------------------------------------------------------------------------
\* Similarity score: int(fuzz.partial_ratio(a.lower(), b.lower()))
\* ------------------------------------------------------------------------

\* One row of the longest-common-subsequence table of a against b: prev is
\* the row of a's prefix one shorter, c the next character of a.
RECURSIVE LcsRow(_, _, _, _, _)
LcsRow(prev, c, b, j, row) ==
  IF j > Len(b) THEN row
  ELSE LET diag == IF j = 1 THEN 0 ELSE prev[j - 1]
           left == IF j = 1 THEN 0 ELSE row[j - 1]
           v    == IF c = b[j] THEN diag + 1 ELSE Max(prev[j], left)
       IN  LcsRow(prev, c, b, j + 1, Append(row, v))

RECURSIVE LcsFrom(_, _, _, _)
LcsFrom(a, b, i, prev) ==
  IF i > Len(a) THEN (IF b = <<>> THEN 0 ELSE prev[Len(b)])
  ELSE LcsFrom(a, b, i + 1, LcsRow(prev, a[i], b, 1, <<>>))

Lcs(a, b) == LcsFrom(a, b, 1, [j \in 1..Len(b) |-> 0])

\* fuzz.ratio: the normalized Indel similarity, 100 * 2*lcs / (|a| + |b|),
\* cut to an integer as int() cuts the score.
Ratio(a, b) ==
  IF Len(a) + Len(b) = 0 THEN 100
  ELSE (200 * Lcs(a, b)) \div (Len(a) + Len(b))

SetMax(S) == IF S = {} THEN 0 ELSE CHOOSE y \in S : \A z \in S : y >= z

\* The best alignment of the shorter string s in the longer string l: the
\* windows of l of the length of s, and the shorter ones hanging over either
\* end of l.
PartialRatioImpl(s, l) ==
  LET m == Len(s)
      n == Len(l)
      prefixes == {Ratio(s, Slice(l, 1, i)) : i \in 1..(m - 1)}
      windows  == {Ratio(s, Slice(l, i, i + m - 1)) : i \in 1..(n - m)}
      suffixes == {Ratio(s, Slice(l, i, n)) : i \in (n - m + 1)..n}
  IN  SetMax(prefixes \cup windows \cup suffixes)

PartialRatio(a, b) ==
  IF Len(a) = 0 \/ Len(b) = 0 THEN (IF Len(a) = Len(b) THEN 100 ELSE 0)
  ELSE IF Len(a) < Len(b) THEN PartialRatioImpl(a, b)
  ELSE IF Len(b) < Len(a) THEN PartialRatioImpl(b, a)
  ELSE Max(PartialRatioImpl(a, b), PartialRatioImpl(b, a))

\* ProductQASystem._confidence; the except branch is not reachable for str
\* arguments, which are all that answer() and find_best_title() pass.
Confidence(a, b) == PartialRatio(Lower(a), Lower(b))

\* ------------------------------------------------------------------------
\* Regular expressions (module re), as far as the patterns of the engine
\* use them.  A pattern is a tree of nodes:
\*   set  one character in (not in, with neg) cs; with ic the character is
\*        lowered first (flags=re.I)
\*   seq  the items one after another
\*   alt  the first item that leads to a match, in order
\*   rep  min to max repetitions of item, as many as lead to a match
\*        (all quantifiers of the engine's patterns are greedy)
\*   grp  capture group n around item
\* MatchNode gives the matches of a node at position i in the order a
\* backtracking matcher tries them, each with the position after the match
\* and the groups captured so far.
\* ------------------------------------------------------------------------

CharSet(cs)     == [t |-> "set", neg |-> FALSE, ic |-> FALSE, cs |-> cs]
CharSetI(cs)    == [t |-> "set", neg |-> FALSE, ic |-> TRUE,  cs |-> cs]
NotCharSet(cs)  == [t |-> "set", neg |-> TRUE,  ic |-> FALSE, cs |-> cs]
SeqOf(items)    == [t |-> "seq", items |-> items]
AltOf(items)    == [t |-> "alt", items |-> items]
Rep(lo, hi, it) == [t |-> "rep", min |-> lo, max |-> hi, item |-> it]
Group(n, it)    == [t |-> "grp", n |-> n, item |-> it]
Opt(it)         == Rep(0, 1, it)

\* A literal string under re.I; the literal is written in lower case.
LitI(str) == SeqOf([k \in DOMAIN str |-> CharSetI({str[k]})])

\* The bound that stands for an unbounded quantifier (*, +): no string of
\* the engine reaches it, as its text fields are cut to 12000 characters
\* and a question is one request body.
Unbounded == 1000000

NoGroups == [n \in 1..4 |-> <<0, -1>>]

RECURSIVE MatchNode(_, _, _, _)
RECURSIVE MatchItems(_, _, _, _)
RECURSIVE MatchAlts(_, _, _, _, _)
RECURSIVE MatchRep(_, _, _, _, _)
RECURSIVE Continue(_, _, _)
RECURSIVE ContinueRep(_, _, _, _)

\* Every match in ms continued by the items, in order.
Continue(ms, items, s) ==
  IF ms = <<>> THEN <<>>
  ELSE MatchItems(items, s, ms[1].e, ms[1].caps) \o Continue(Tail(ms), items, s)

MatchItems(items, s, i, caps) ==
  IF items = <<>> THEN << [e |-> i, caps |-> caps] >>
  ELSE Continue(MatchNode(items[1], s, i, caps), Tail(items), s)

MatchAlts(items, k, s, i, caps) ==
  IF k > Len(items) THEN <<>>
  ELSE MatchNode(items[k], s, i, caps) \o MatchAlts(items, k + 1, s, i, caps)

\* Every match in ms continued by more repetitions of the node; a
\* repetition that consumed nothing is not repeated.
ContinueRep(ms, node, s, count) ==
  IF ms = <<>> THEN <<>>
  ELSE MatchRep(node, s, ms[1].e, ms[1].caps, count)
         \o ContinueRep(Tail(ms), node, s, count)

\* count repetitions are done; more first, then stopping here.
MatchRep(node, s, i, caps, count) ==
  LET once == IF count < node.max /\ i <= Len(s)
                THEN MatchNode(node.item, s, i, caps) ELSE <<>>
      more == ContinueRep(once, node, s, count + 1)
      stop == IF count >= node.min THEN << [e |-> i, caps |-> caps] >> ELSE <<>>
  IN  more \o stop

MatchNode(node, s, i, caps) ==
  CASE node.t = "set" ->
         IF /\ i <= Len(s)
            /\ ((IF node.ic THEN LowerChar(s[i]) ELSE s[i]) \in node.cs) # node.neg
           THEN << [e |-> i + 1, caps |-> caps] >>
           ELSE <<>>
    [] node.t = "seq" -> MatchItems(node.items, s, i, caps)
    [] node.t = "alt" -> MatchAlts(node.items, 1, s, i, caps)
    [] node.t = "rep" -> MatchRep(node, s, i, caps, 0)
    [] node.t = "grp" ->
         LET ms == MatchNode(node.item, s, i, caps)
         IN  [k \in DOMAIN ms |->
                [e |-> ms[k].e,
                 caps |-> [ms[k].caps EXCEPT ![node.n] = <<i, ms[k].e - 1>>]]]

\* re.search(pattern, s): the first match at the leftmost position that has
\* one, as <<match>>, or <<>> (None).  A match is [start, e, caps].
RECURSIVE SearchFrom(_, _, _)
SearchFrom(node, s, i) ==
  IF i > Len(s) + 1 THEN <<>>
  ELSE LET ms == MatchNode(node, s, i, NoGroups)
       IN  IF ms # <<>>
             THEN << [start |-> i, e |-> ms[1].e, caps |-> ms[1].caps] >>
             ELSE SearchFrom(node, s, i + 1)

Search(node, s) == SearchFrom(node, s, 1)

\* m.group(n)
GroupText(s, m, n) == Slice(s, m.caps[n][1], m.caps[n][2])

\* ------------------------------------------------------------------------
\* Numbers in text
\* ------------------------------------------------------------------------

\* str(n) for a natural number n.
RECURSIVE DecStr(_)
DecStr(n) ==
  IF n < 10 THEN <<DigitChars[n + 1]>>
  ELSE DecStr(n \div 10) \o <<DigitChars[(n % 10) + 1]>>

RECURSIVE DigitsVal(_, _)
DigitsVal(ds, acc) ==
  IF ds = <<>> THEN acc ELSE DigitsVal(Tail(ds), 10 * acc + DigitVal(ds[1]))

\* float(text) for text of the form \d+(\.\d{1,2})?, in hundredths.
Hundredths(text) ==
  LET dots == {i \in DOMAIN text : text[i] = "."}
  IN  IF dots = {} THEN 100 * DigitsVal(text, 0)
      ELSE LET d    == CHOOSE i \in dots : TRUE
               frac == Slice(text, d + 1, Len(text))
           IN  100 * DigitsVal(Slice(text, 1, d - 1), 0)
                 + (IF Len(frac) = 1 THEN 10 * DigitsVal(frac, 0)
                    ELSE DigitsVal(frac, 0))

\* f"{t/10:.1f}" for a number of tenths t.
FormatTenths(t) == DecStr(t \div 10) \o <<".">> \o DecStr(t % 10)

\* f"{val}" (repr) of the float with h hundredths: the shortest decimal,
\* with at least one digit after the point.
FloatRepr(h) ==
  DecStr(h \div 100) \o <<".">> \o
    (IF h % 10 = 0 THEN DecStr((h % 100) \div 10)
     ELSE DecStr((h % 100) \div 10) \o DecStr(h % 10))

\* The .1f rendering of g / 1000: g grams in tenths of a kilogram, rounded
\* to the nearest tenth.  A value exactly between two tenths (g % 100 = 50)
\* is rounded as the binary float nearest to g / 1000 lies, which the
\* integers do not tell; the catalogs below hold no such weight.
GramsToTenths(g) == (g + 50) \div 100

\* The .1f rendering of val * 0.453592 for val = h hundredths of a pound,
\* in tenths of a kilogram: round(h * 453592 / 10^7), computed in parts that
\* stay within 32 bits.  No h makes the product a tie.
PoundsToTenths(h) ==
  LET a == h * 453
      b == h * 592
  IN  (a + (b \div 1000) + 5000) \div 10000

\* The .1f rendering of val / 1000 for val = h hundredths of a gram
\* (h < 100000): the ties 0.05, 0.15, ... 0.95 as their floats round.
TextGramsToTenths(h) ==
  IF h % 10000 # 5000 THEN (h + 5000) \div 10000
  ELSE LET k == h \div 10000
       IN  IF k \in {0, 4, 5, 6, 7} THEN k + 1 ELSE k

\* ------------------------------------------------------------------------
\* The patterns of qa_engine.py
\* ------------------------------------------------------------------------

Digit      == CharSet(Range(DigitChars))
NotDigit   == NotCharSet(Range(DigitChars))
Space      == CharSet({" ", "\t", "\n"})
NotAlnum   == NotCharSet(Range(DigitChars) \cup Range(UpperLetters) \cup Range(LowerLetters))

\* r"/products/([a-z0-9\\-]+)", flags=re.I: in the raw string the class
\* holds the letters, the digits, the backslash and the hyphen.
UrlPattern ==
  SeqOf(<< LitI(<<"/","p","r","o","d","u","c","t","s","/">>),
           Group(1, Rep(1, Unbounded,
                        CharSetI(Range(LowerLetters) \cup Range(DigitChars) \cup {"\\", "-"}))) >>)

\* (\d{lo,hi}(?:\.\d{1,2})?)
Number(n, lo, hi) ==
  Group(n, SeqOf(<< Rep(lo, hi, Digit), Opt(SeqOf(<< CharSet({"."}), Rep(1, 2, Digit) >>)) >>))

\* (?:weight[^A-Za-z0-9]{0,10})?(\d{1,3}(?:\.\d{1,2})?)\s?
\*   (kg|kilograms|g|grams|lbs|lb|pounds), flags=re.I
WeightPattern ==
  SeqOf(<< Opt(SeqOf(<< LitI(<<"w","e","i","g","h","t">>), Rep(0, 10, NotAlnum) >>)),
           Number(1, 1, 3),
           Opt(Space),
           Group(2, AltOf(<< LitI(<<"k","g">>), LitI(<<"k","i","l","o","g","r","a","m","s">>), LitI(<<"g">>), LitI(<<"g","r","a","m","s">>),
                             LitI(<<"l","b","s">>), LitI(<<"l","b">>), LitI(<<"p","o","u","n","d","s">>) >>)) >>)

\* [x\u00d7]: the model's strings are ASCII, so the multiplication sign is left out.
Times == CharSetI({"x"})

\* (\d{2,4}(?:\.\d{1,2})?)\s*[x\u00d7]\s*(\d{2,4}(?:\.\d{1,2})?)\s*[x\u00d7]\s*
\*   (\d{2,4}(?:\.\d{1,2})?)\s*(mm|cm|in|inch|inches), flags=re.I
DimensionsPattern ==
  SeqOf(<< Number(1, 2, 4), Rep(0, Unbounded, Space), Times, Rep(0, Unbounded, Space),
           Number(2, 2, 4), Rep(0, Unbounded, Space), Times, Rep(0, Unbounded, Space),
           Number(3, 2, 4), Rep(0, Unbounded, Space),
           Group(4, AltOf(<< LitI(<<"m","m">>), LitI(<<"c","m">>), LitI(<<"i","n">>), LitI(<<"i","n","c","h">>),
                             LitI(<<"i","n","c","h","e","s">>) >>)) >>)

\* dimensions[^:]*:\s*([^\n\r;]+), flags=re.I
DimensionsLinePattern ==
  SeqOf(<< LitI(<<"d","i","m","e","n","s","i","o","n","s">>), Rep(0, Unbounded, NotCharSet({":"})), CharSet({":"}),
           Rep(0, Unbounded, Space),
           Group(1, Rep(1, Unbounded, NotCharSet({"\n", ";"}))) >>)

\* (battery(?:\s*life|\s*run[\s-]*time)?)\D{0,12}(\d{1,2}(?:\.\d{1,2})?)\s*
\*   (h|hr|hrs|hour|hours), flags=re.I
BatteryPattern ==
  SeqOf(<< Group(1, SeqOf(<< LitI(<<"b","a","t","t","e","r","y">>),
                            Opt(AltOf(<< SeqOf(<< Rep(0, Unbounded, Space), LitI(<<"l","i","f","e">>) >>),
                                         SeqOf(<< Rep(0, Unbounded, Space), LitI(<<"r","u","n">>),
                                                  Rep(0, Unbounded, CharSet({" ", "\t", "\n", "-"})),
                                                  LitI(<<"t","i","m","e">>) >>) >>)) >>)),
           Rep(0, 12, NotDigit),
           Number(2, 1, 2),
           Rep(0, Unbounded, Space),
           Group(3, AltOf(<< LitI(<<"h">>), LitI(<<"h","r">>), LitI(<<"h","r","s">>), LitI(<<"h","o","u","r">>),
                             LitI(<<"h","o","u","r","s">>) >>)) >>)

\* (\d(?:\.\d)?)\s*(l\/?min|lpm|litres per minute), flags=re.I
FlowPattern ==
  SeqOf(<< Group(1, SeqOf(<< Digit, Opt(SeqOf(<< CharSet({"."}), Digit >>)) >>)),
           Rep(0, Unbounded, Space),
           Group(2, AltOf(<< SeqOf(<< LitI(<<"l">>), Opt(CharSet({"/"})), LitI(<<"m","i","n">>) >>),
                             LitI(<<"l","p","m">>), LitI(<<"l","i","t","r","e","s"," ","p","e","r"," ","m","i","n","u","t","e">>) >>)) >>)

\* ------------------------------------------------------------------------
\* Attribute extractors.  info is an entry of product_groups; the result is
\* <<>> (None) or <<value>>.
\* ------------------------------------------------------------------------

UpperChar(c) == IF IsLower(c) THEN UpperLetters[IndexIn(LowerLetters, c)] ELSE c

Upper(s) == [i \in DOMAIN s |-> UpperChar(s[i])]

SeqMin(seq) == CHOOSE x \in Range(seq) : \A y \in Range(seq) : x <= y

\* " ".join([info.get('specs',''), info.get('features',''), info.get('desc','')])
InfoText(info) == JoinSpace(<<info.specs, info.features, info.desc>>)

IsPositive(g) == g > 0

FromVariantData == <<" ","k","g"," ","(","a","p","p","r","o","x",".",","," ","f","r","o","m"," ","v","a","r","i","a","n","t"," ","d","a","t","a",")">>
FromProductText == <<" ","(","f","r","o","m"," ","p","r","o","d","u","c","t"," ","t","e","x","t",")">>

\* Line 147 without its "if g > 0": every variant weight counts.
AllGrams(info) == info.grams

\* Line 147: the variant weights that count, the positive ones.
PositiveGrams(info) == SelectSeq(info.grams, IsPositive)

\* Lines 149 and 150: the least of the weights, in kilograms.
VariantWeight(grams) == FormatTenths(GramsToTenths(SeqMin(grams))) \o FromVariantData

\* ProductQASystem._extract_weight
ExtractWeight(info) ==
  LET grams == PositiveGrams(info)
      text  == InfoText(info)
      m     == Search(WeightPattern, text)
  IN  IF grams # <<>> THEN << VariantWeight(grams) >>
      ELSE IF m = <<>> THEN <<>>
      ELSE LET val  == Hundredths(GroupText(text, m[1], 1))
               unit == Lower(GroupText(text, m[1], 2))
           IN  IF unit \in {<<"k","g">>, <<"k","i","l","o","g","r","a","m","s">>}
                 THEN << FloatRepr(val) \o <<" ","k","g">> \o FromProductText >>
               ELSE IF unit \in {<<"g">>, <<"g","r","a","m","s">>}
                 THEN << FormatTenths(TextGramsToTenths(val)) \o <<" ","k","g">> \o FromProductText >>
               ELSE IF unit \in {<<"l","b","s">>, <<"l","b">>, <<"p","o","u","n","d","s">>}
                 THEN << FormatTenths(PoundsToTenths(val)) \o <<" ","k","g"," ","(","c","o","n","v","e","r","t","e","d"," ","f","r","o","m"," ">>
                           \o unit \o <<";"," ","f","r","o","m"," ","p","r","o","d","u","c","t"," ","t","e","x","t",")">> >>
               ELSE <<>>

\* ProductQASystem._extract_dimensions
ExtractDimensions(info) ==
  LET text == InfoText(info)
      m    == Search(DimensionsPattern, text)
      m2   == Search(DimensionsLinePattern, text)
  IN  IF m # <<>>
        THEN << GroupText(text, m[1], 1) \o <<" ","x"," ">> \o GroupText(text, m[1], 2) \o <<" ","x"," ">>
                  \o GroupText(text, m[1], 3) \o <<" ">> \o GroupText(text, m[1], 4)
                  \o FromProductText >>
      ELSE IF m2 # <<>>
        THEN << Strip(GroupText(text, m2[1], 1)) \o FromProductText >>
      ELSE <<>>

\* ProductQASystem._extract_battery
ExtractBattery(info) ==
  LET text == InfoText(info)
      m    == Search(BatteryPattern, text)
  IN  IF m # <<>>
        THEN << GroupText(text, m[1], 2) \o <<" ","h","o","u","r","s">> \o FromProductText >>
        ELSE <<>>

\* ", ".join(tags)
RECURSIVE JoinComma(_)
JoinComma(parts) ==
  IF parts = <<>> THEN <<>>
  ELSE IF Len(parts) = 1 THEN parts[1]
  ELSE parts[1] \o <<","," ">> \o JoinComma(Tail(parts))

\* ProductQASystem._extract_flow
ExtractFlow(info) ==
  LET text == Lower(InfoText(info))
      tags == (IF Contains(text, <<"c","o","n","t","i","n","u","o","u","s"," ","f","l","o","w">>) \/ Contains(text, <<"c","o","n","t","i","n","u","o","u","s","-","f","l","o","w">>)
                 THEN << <<"c","o","n","t","i","n","u","o","u","s"," ","f","l","o","w">> >> ELSE <<>>)
              \o
              (IF \/ Contains(text, <<"p","u","l","s","e"," ","f","l","o","w">>)
                  \/ Contains(text, <<"p","u","l","s","e","-","d","o","s","e">>)
                  \/ Contains(text, <<"p","u","l","s","e"," ","m","o","d","e">>)
                 THEN << <<"p","u","l","s","e"," ","f","l","o","w">> >> ELSE <<>>)
      m    == Search(FlowPattern, text)
      rate == IF m # <<>>
                THEN << GroupText(text, m[1], 1) \o <<" ">> \o Upper(GroupText(text, m[1], 2)) >>
                ELSE <<>>
  IN  IF tags # <<>> \/ rate # <<>>
        THEN (IF tags # <<>>
                THEN << JoinComma(tags)
                          \o (IF rate # <<>> THEN <<" ","(">> \o rate[1] \o <<")">> ELSE <<>>) >>
                ELSE rate)
        ELSE <<>>

\* ------------------------------------------------------------------------
\* The data frame.  A frame is [cols, rows]: cols the set of column names,
\* rows a sequence of functions from cols to cells.  A cell is optional
\* text: <<>> is NaN (an empty CSV field, a None of the API), <<text>> a
\* value.  Numbers are cells too, as the text the source gives for them.
\* ------------------------------------------------------------------------

BaseColumns == {"Title", "Handle", "Body (HTML)", "Variant Grams", "Variant Weight Unit"}

SpecsColumn    == "Specifications (product.metafields.custom.specifications)"
FeaturesColumn == "Key Features (product.metafields.custom.key_features)"

\* pd.DataFrame(columns=[...]) of lines 50, 73 and 77.
EmptyFrame == [cols |-> BaseColumns, rows |-> <<>>]

\* Series.fillna('').astype(str) on one cell.
FillNa(cell) == IF cell = <<>> THEN <<>> ELSE cell[1]

\* The maximal tags <[^>]+> of text cut out: the pieces of text between them,
\* in order (one more piece than there are tags).
RECURSIVE SplitTags(_, _)
SplitTags(text, piece) ==
  IF text = <<>> THEN <<piece>>
  ELSE LET closes == {i \in 3..Len(text) : text[i] = ">"}
       IN  IF text[1] = "<" /\ Len(text) >= 2 /\ text[2] # ">" /\ closes # {}
             THEN LET c == CHOOSE i \in closes : \A j \in closes : i <= j
                  IN  <<piece>> \o SplitTags(Slice(text, c + 1, Len(text)), <<>>)
             ELSE SplitTags(Tail(text), Append(piece, text[1]))

NonEmpty(str) == str # <<>>

StripAll(pieces) == [i \in DOMAIN pieces |-> Strip(pieces[i])]

\* ProductQASystem._clean_html on a str: with bs4 the text nodes, each
\* stripped, the empty ones dropped, joined by " " (get_text(" ",
\* strip=True)); without it every tag replaced by " " (re.sub).  The
\* model's texts hold no entities, comments or unclosed tags, on which the
\* parser and the pattern differ further.
CleanHtml(text, bs4) ==
  IF bs4 THEN JoinSpace(SelectSeq(StripAll(SplitTags(text, <<>>)), NonEmpty))
         ELSE JoinSpace(SplitTags(text, <<>>))

\* df[col] = value for every row, value a function of the row.
WithColumn(df, col, Value(_)) ==
  [cols |-> df.cols \cup {col},
   rows |-> [i \in DOMAIN df.rows |->
               [c \in df.cols \cup {col} |->
                  IF c = col THEN Value(df.rows[i]) ELSE df.rows[i][c]]]]

\* ProductQASystem._prep_dataframe.  df.get(col, "") is the str "" when the
\* column is missing, and "".fillna raises AttributeError: the result is
\* [ok, df], df being self.df as the method leaves it (the frame is changed
\* in place, column by column).
PrepDataframe(df, bs4) ==
  IF "Title" \notin df.cols THEN [ok |-> FALSE, df |-> df]
  ELSE
    LET TitleOf(r) == << FillNa(r["Title"]) >>
        d1 == WithColumn(df, "Title", TitleOf)
    IN
    IF "Body (HTML)" \notin df.cols THEN [ok |-> FALSE, df |-> d1]
    ELSE
      LET DescOf(r) == << CleanHtml(FillNa(r["Body (HTML)"]), bs4) >>
          SpecsOf(r) == IF SpecsColumn \in df.cols
                          THEN << CleanHtml(FillNa(r[SpecsColumn]), bs4) >>
                          ELSE << <<>> >>
          FeatOf(r) == IF FeaturesColumn \in df.cols
                         THEN << CleanHtml(FillNa(r[FeaturesColumn]), bs4) >>
                         ELSE << <<>> >>
          d2 == WithColumn(d1, "desc_clean", DescOf)
          d3 == WithColumn(d2, "specs_clean", SpecsOf)
          d4 == WithColumn(d3, "features_clean", FeatOf)
      IN  [ok |-> TRUE, df |-> d4]

\* ------------------------------------------------------------------------
\* The catalog index
\* ------------------------------------------------------------------------

\* The cap of each text field of an entry.
TextCap == 12000

\* The keys of df.groupby('Title') in the order groupby yields them: sorted.
RECURSIVE SortedStrings(_)
SortedStrings(S) ==
  IF S = {} THEN <<>>
  ELSE LET m == CHOOSE x \in S : \A y \in S \ {x} : StrLess(x, y)
       IN  <<m>> \o SortedStrings(S \ {m})

GroupKeys(df) == SortedStrings({df.rows[i]["Title"][1] : i \in DOMAIN df.rows})

\* The cells of column col in the rows of one group, in row order; an
\* absent column gives the empty Series of group.get(col, pd.Series(...)).
RECURSIVE GroupCells(_, _, _, _)
GroupCells(df, title, col, i) ==
  IF col \notin df.cols \/ i > Len(df.rows) THEN <<>>
  ELSE (IF df.rows[i]["Title"][1] = title THEN << df.rows[i][col] >> ELSE <<>>)
         \o GroupCells(df, title, col, i + 1)

\* float(text) succeeds: the model's numbers are integers in decimal.
IsNumberText(t) ==
  LET ds == IF t # <<>> /\ t[1] = "-" THEN Tail(t) ELSE t
  IN  ds # <<>> /\ \A i \in DOMAIN ds : IsDigit(ds[i])

NumberOf(t) ==
  IF t[1] = "-" THEN 0 - DigitsVal(Tail(t), 0) ELSE DigitsVal(t, 0)

AllNumbers(cells) == \A i \in DOMAIN cells : IsNumberText(cells[i])

\* The dict built for one group (lines 107 to 114): [ok, info].  astype(float)
\* raises ValueError on a cell that is no number.
GroupInfo(df, title) ==
  LET gramsText == DropNa(GroupCells(df, title, "Variant Grams", 1))
  IN  IF ~AllNumbers(gramsText) THEN [ok |-> FALSE]
      ELSE
        [ok |-> TRUE,
         info |->
           [handles  |-> Unique(DropNa(GroupCells(df, title, "Handle", 1))),
            desc     |-> Take(JoinSpace(Unique(DropNa(GroupCells(df, title, "desc_clean", 1)))), TextCap),
            specs    |-> Take(JoinSpace(Unique(DropNa(GroupCells(df, title, "specs_clean", 1)))), TextCap),
            features |-> Take(JoinSpace(Unique(DropNa(GroupCells(df, title, "features_clean", 1)))), TextCap),
            grams    |-> [i \in DOMAIN gramsText |-> NumberOf(gramsText[i])],
            weight_unit |-> Unique(DropNa(GroupCells(df, title, "Variant Weight Unit", 1)))]]

\* One turn of the loop of _build_index on the group of key title, groups
\* being self.product_groups: [ok, groups].
BuildGroup(df, title, groups) ==
  IF title = <<>> THEN [ok |-> TRUE, groups |-> groups]
  ELSE LET g == GroupInfo(df, title)
       IN  IF g.ok THEN [ok |-> TRUE, groups |-> (title :> g.info) @@ groups]
                   ELSE [ok |-> FALSE, groups |-> groups]

\* The loop of _build_index over the keys still to come.
RECURSIVE BuildGroups(_, _, _)
BuildGroups(df, keys, groups) ==
  IF keys = <<>> THEN [ok |-> TRUE, groups |-> groups]
  ELSE LET b == BuildGroup(df, keys[1], groups)
       IN  IF b.ok THEN BuildGroups(df, Tail(keys), b.groups) ELSE b

\* self.product_groups = {} of line 103: the function with no key.
EmptyGroups == [t \in {} |-> <<>>]

\* list(self.product_groups.keys()): a dict keeps the order of insertion,
\* which _build_index makes the sorted order.
Keys(groups) == SortedStrings(DOMAIN groups)

\* ProductQASystem._build_index: [ok, groups, titles], titles being
\* self.titles as the method leaves them, given what they were.
BuildIndex(df, oldTitles) ==
  LET b == BuildGroups(df, GroupKeys(df), EmptyGroups)
  IN  [ok |-> b.ok, groups |-> b.groups,
       titles |-> IF b.ok THEN Keys(b.groups) ELSE oldTitles]

\* ------------------------------------------------------------------------
\* Matching
\* ------------------------------------------------------------------------

\* for title, info in groups.items(): for h in info['handles']: the first
\* title, in the order of the dict, that has the handle.
RECURSIVE FirstWithHandle(_, _, _)
FirstWithHandle(groups, keys, handle) ==
  IF keys = <<>> THEN <<>>
  ELSE IF \E i \in DOMAIN groups[keys[1]].handles :
            Lower(groups[keys[1]].handles[i]) = handle
         THEN << keys[1] >>
         ELSE FirstWithHandle(groups, Tail(keys), handle)

\* ProductQASystem.resolve_product_from_url: <<>> (None) or <<title>>.
ResolveProductFromUrl(groups, q) ==
  LET m == Search(UrlPattern, q)
  IN  IF m = <<>> THEN <<>>
      ELSE FirstWithHandle(groups, Keys(groups), Lower(GroupText(q, m[1], 1)))

\* int(cutoff * 100) for the default cutoff 0.55 of find_best_title.
CutoffScore == 55

\* How many of the titles that clear the cutoff are suggested: top[:3].
MaxSuggestions == 3

\* self.synonyms.get(query): the table looked up with the query as typed.
SynonymAliasAsTyped(syn, groups, query) ==
  IF query \in DOMAIN syn /\ syn[query] # <<>> /\ syn[query] \in DOMAIN groups
    THEN << syn[query] >>
    ELSE <<>>

\* self.synonyms.get(query.lower().strip()), kept when "alias and alias in
\* self.product_groups": <<>> or <<alias>>.
SynonymAlias(syn, groups, query) ==
  LET key == Strip(Lower(query))
  IN  IF key \in DOMAIN syn /\ syn[key] # <<>> /\ syn[key] \in DOMAIN groups
        THEN << syn[key] >>
        ELSE <<>>

\* scores.sort(key=score, reverse=True): a stable sort, so titles of equal
\* score stay in the order of self.titles.  The result is the order of the
\* positions of titles.
RECURSIVE SortedPositions(_, _)
SortedPositions(scores, left) ==
  IF left = {} THEN <<>>
  ELSE LET p == CHOOSE i \in left :
                  \A j \in left \ {i} :
                     scores[i] > scores[j] \/ (scores[i] = scores[j] /\ i < j)
       IN  <<p>> \o SortedPositions(scores, left \ {p})

\* top without its "if s >= int(cutoff*100)": every title, best first.
TopTitlesNoCutoff(titles, query) ==
  LET scores == [i \in DOMAIN titles |-> Confidence(query, titles[i])]
      order  == SortedPositions(scores, DOMAIN titles)
  IN  [k \in DOMAIN order |-> titles[order[k]]]

\* top of find_best_title: the titles scoring at least the cutoff, best first.
TopTitles(titles, query) ==
  LET scores == [i \in DOMAIN titles |-> Confidence(query, titles[i])]
      order  == SortedPositions(scores, DOMAIN titles)
      Clears(i) == scores[i] >= CutoffScore
      kept   == SelectSeq(order, Clears)
  IN  [k \in DOMAIN kept |-> titles[kept[k]]]

\* ProductQASystem.find_best_title: [best, suggestions], best optional.
FindBestTitle(syn, groups, titles, query) ==
  LET alias == SynonymAlias(syn, groups, query)
      top   == TopTitles(titles, query)
  IN  IF alias # <<>> THEN [best |-> alias, suggestions |-> alias]
      ELSE IF top # <<>>
        THEN [best |-> << top[1] >>, suggestions |-> Take(top, MaxSuggestions)]
        ELSE [best |-> <<>>, suggestions |-> <<>>]

\* ------------------------------------------------------------------------
\* answer()
\* ------------------------------------------------------------------------

AttrWeight     == <<"w","e","i","g","h","t">>
AttrDimensions == <<"d","i","m","e","n","s","i","o","n","s">>
AttrBattery    == <<"b","a","t","t","e","r","y">>
AttrFlow       == <<"f","l","o","w">>
AttrGeneral    == <<"g","e","n","e","r","a","l">>

WeightKeywords     == { <<"w","e","i","g","h","t">>, <<"w","e","i","g","h">>, <<"k","g">>, <<"g","r","a","m","s">> }
DimensionsKeywords == { <<"d","i","m","e","n","s","i","o","n">>, <<"s","i","z","e">>, <<"w","i","d","t","h">>, <<"h","e","i","g","h","t">>, <<"l","e","n","g","t","h">>, <<"d","e","p","t","h">>, <<"f","o","l","d","e","d">> }
BatteryKeywords    == { <<"b","a","t","t","e","r","y">>, <<"r","u","n","t","i","m","e">>, <<"r","u","n"," ","t","i","m","e">>, <<"h","o","u","r","s">> }
FlowKeywords       == { <<"f","l","o","w">>, <<"l","/","m","i","n">>, <<"l","p","m">>, <<"l","i","t","r","e","s"," ","p","e","r"," ","m","i","n","u","t","e">>, <<"c","o","n","t","i","n","u","o","u","s">>, <<"p","u","l","s","e">> }

\* any(k in q_l for k in keywords)
AnyIn(keywords, q_l) == \E k \in keywords : Contains(q_l, k)

\* The attribute guess with the dimensions keywords tried first.
ClassifyDimensionsFirst(q_l) ==
  IF AnyIn(DimensionsKeywords, q_l) THEN AttrDimensions
  ELSE IF AnyIn(WeightKeywords, q_l) THEN AttrWeight
  ELSE IF AnyIn(BatteryKeywords, q_l) THEN AttrBattery
  ELSE IF AnyIn(FlowKeywords, q_l) THEN AttrFlow
  ELSE AttrGeneral

\* The attribute guess of lines 217 to 225.
ClassifyAttribute(q_l) ==
  IF AnyIn(WeightKeywords, q_l) THEN AttrWeight
  ELSE IF AnyIn(DimensionsKeywords, q_l) THEN AttrDimensions
  ELSE IF AnyIn(BatteryKeywords, q_l) THEN AttrBattery
  ELSE IF AnyIn(FlowKeywords, q_l) THEN AttrFlow
  ELSE AttrGeneral

\* The extractors dict of lines 227 to 232.
Extractable == {AttrWeight, AttrDimensions, AttrBattery, AttrFlow}

Extract(attr, info) ==
  IF attr = AttrWeight THEN ExtractWeight(info)
  ELSE IF attr = AttrDimensions THEN ExtractDimensions(info)
  ELSE IF attr = AttrBattery THEN ExtractBattery(info)
  ELSE ExtractFlow(info)

\* str.capitalize()
Capitalize(str) ==
  IF str = <<>> THEN <<>> ELSE << UpperChar(str[1]) >> \o Lower(Tail(str))

\* The message of line 210 (its apostrophe written in ASCII).
NotFoundMessage ==
  <<"I"," ","c","o","u","l","d","n","'","t"," ","f","i","n","d"," ","t","h","a","t"," ","p","r","o","d","u","c","t","."," ","P","l","e","a","s","e"," ","s","h","a","r","e"," ","t","h","e"," ","e","x","a","c","t"," ","p","r","o","d","u","c","t"," ","n","a","m","e"," ","o","r"," ","a"," ","l","i","n","k"," ","t","o"," ","t","h","e"," ","p","r","o","d","u","c","t"," ","p","a","g","e",".">>

\* The result of lines 208 to 213.
NotFoundResult(suggestions) ==
  [ok |-> FALSE, answer |-> NotFoundMessage, suggestions |-> suggestions, confidence |-> 0]

\* The result of lines 237 to 243 without the "if val" of line 237: ok
\* whatever the extractor returned.
AttributeResultAlwaysOk(attr, title, val, conf) ==
  [ok |-> TRUE, product |-> title, attribute |-> attr, confidence |-> conf,
   answer |-> Capitalize(attr) \o title]

\* The results of lines 237 to 243: val is what the extractor returned.
AttributeResult(attr, title, val, conf) ==
  IF val # <<>>
    THEN [ok |-> TRUE, product |-> title, attribute |-> attr, value |-> val[1],
          confidence |-> conf,
          answer |-> Capitalize(attr) \o <<" ","f","o","r"," ","*","*">> \o title \o <<"*","*",":"," ">> \o val[1]]
    ELSE [ok |-> FALSE, product |-> title, attribute |-> attr, confidence |-> conf,
          answer |-> <<"I"," ","c","o","u","l","d","n","'","t"," ","f","i","n","d"," ">> \o attr \o <<" ","d","e","t","a","i","l","s"," ","f","o","r"," ","*","*">> \o title
                       \o <<"*","*"," ","i","n"," ","t","h","e"," ","c","u","r","r","e","n","t"," ","d","a","t","a",".">>]

\* How much of the description the overview shows.
OverviewLen == 300

\* The result of lines 246 to 251.
GeneralResult(title, info, conf) ==
  [ok |-> TRUE, product |-> title, attribute |-> AttrGeneral, confidence |-> conf,
   answer |-> <<"I"," ","f","o","u","n","d"," ","*","*">> \o title \o <<"*","*","."," ","H","e","r","e","'","s"," ","a"," ","q","u","i","c","k"," ","o","v","e","r","v","i","e","w",":"," ">>
                \o Take(info.desc, OverviewLen)
                \o (IF Len(info.desc) > OverviewLen THEN <<".",".",".">> ELSE <<>>)]

\* answer() from line 207 on, given what resolution found and the dict that
\* line 215 reads: [raised, result].  A title that is no key of the dict
\* raises KeyError.
AnswerResolved(groups, q, product_title, suggestions) ==
  IF product_title = <<>>
    THEN [raised |-> FALSE, result |-> NotFoundResult(suggestions)]
  ELSE IF product_title[1] \notin DOMAIN groups
    THEN [raised |-> TRUE, result |-> "KeyError"]
  ELSE
    LET title == product_title[1]
        info  == groups[title]
        attr  == ClassifyAttribute(Lower(q))
        conf  == Confidence(q, title)
    IN  [raised |-> FALSE,
         result |-> IF attr \in Extractable
                      THEN AttributeResult(attr, title, Extract(attr, info), conf)
                      ELSE GeneralResult(title, info, conf)]

\* Product resolution of lines 202 to 205: the URL handle first.
ResolveProduct(syn, groups, titles, q) ==
  LET url == ResolveProductFromUrl(groups, q)
  IN  IF url # <<>> THEN [best |-> url, suggestions |-> <<>>]
                    ELSE FindBestTitle(syn, groups, titles, q)

\* ProductQASystem.answer(question), all of it run against one state of the
\* engine.
Answer(syn, groups, titles, question) ==
  LET q == Strip(question)
      r == ResolveProduct(syn, groups, titles, q)
  IN  AnswerResolved(groups, q, r.best, r.suggestions)

\* ------------------------------------------------------------------------
\* The sources: what the CSV file at csv_path and the listing of the
\* Shopify API can be when reload() reads them.
\* ------------------------------------------------------------------------

NaN == <<>>

CsvRow(title, handle, body, grams, unit) ==
  [c \in BaseColumns |->
     CASE c = "Title" -> title
       [] c = "Handle" -> handle
       [] c = "Body (HTML)" -> body
       [] c = "Variant Grams" -> grams
       [] c = "Variant Weight Unit" -> unit]

\* An export with variants, a shared handle, a row without title and
\* weights that are zero or negative.
CatalogA ==
  [cols |-> BaseColumns,
   rows |-> << CsvRow(<<<<"A","b">>>>, <<<<"a","b","-","1">>>>, <<<<"<","b",">","9"," ","k","g","<","/","b",">">>>>, <<<<"7","0","0","0">>>>, <<<<"g">>>>),
               CsvRow(<<<<"A","b">>>>, <<<<"a","b","-","1">>>>, <<<<"<","b",">","9"," ","k","g","<","/","b",">">>>>, <<<<"6","2","0","0">>>>, <<<<"g">>>>),
               CsvRow(<<<<"A","b","c">>>>, <<<<"A","b","c">>>>, <<<<"1","3",".","5"," ","l","b","s"," ","1","2","0"," ","x"," ","4","5"," ","x"," ","9","0"," ","c","m">>>>, <<<<"0">>>>, NaN),
               CsvRow(NaN, <<<<"x">>>>, NaN, NaN, NaN),
               CsvRow(<<<<"C","a","b">>>>, NaN, <<<<"b","a","t","t","e","r","y"," ","l","i","f","e",":"," ","8"," ","h","r","s"," ","2"," ","l","p","m"," ","p","u","l","s","e"," ","f","l","o","w">>>>, NaN, NaN),
               CsvRow(<<<<"A","b","d">>>>, <<<<"a","b","-","1">>>>, NaN, <<<<"-","5">>>>, <<<<"g">>>>) >>]

\* An export with the specifications metafield column.
CatalogB ==
  [cols |-> BaseColumns \cup {SpecsColumn},
   rows |-> << CsvRow(<<<<"A","b">>>>, <<<<"a","b","-","2">>>>, <<<<"n","e","w">>>>, NaN, NaN)
                 @@ (SpecsColumn :> <<<<"<","p",">","w","e","i","g","h","t",":"," ","5","0","0"," ","g","<","/","p",">">>>>),
               CsvRow(<<<<"Z","q">>>>, <<<<"z","q">>>>, NaN, <<<<"0">>>>, <<<<"g">>>>)
                 @@ (SpecsColumn :> NaN) >>]

\* An export whose Variant Grams column holds a cell that is no number.
CatalogBadGrams ==
  [cols |-> BaseColumns,
   rows |-> << CsvRow(<<<<"A","b">>>>, <<<<"a","b","-","3">>>>, <<<<"1",".","5"," ","l","p","m">>>>, <<<<"1","0","0">>>>, <<<<"g">>>>),
               CsvRow(<<<<"A","b","c">>>>, <<<<"a","b","c">>>>, NaN, <<<<"t","b","d">>>>, NaN) >>]

\* Files without the Title column, and without the Body (HTML) column.
CatalogNoTitle ==
  [cols |-> {"Handle", "Body (HTML)"},
   rows |-> << [c \in {"Handle", "Body (HTML)"} |->
                  IF c = "Handle" THEN <<<<"a","b","-","1">>>> ELSE <<<<"9"," ","k","g">>>>] >>]

CatalogNoBody ==
  [cols |-> {"Title", "Handle"},
   rows |-> << [c \in {"Title", "Handle"} |->
                  IF c = "Title" THEN <<<<"A","b">>>> ELSE <<<<"a","b","-","1">>>>] >>]

CsvFiles ==
  [n \in {"catalog_a", "catalog_b", "bad_grams", "no_title", "no_body"} |->
     CASE n = "catalog_a" -> CatalogA
       [] n = "catalog_b" -> CatalogB
       [] n = "bad_grams" -> CatalogBadGrams
       [] n = "no_title"  -> CatalogNoTitle
       [] n = "no_body"   -> CatalogNoBody]

\* A listing of the API: products of optional title, handle and body_html,
\* each variant of optional grams, sku and price.
ListingA ==
  << [title |-> <<<<"A","b">>>>, handle |-> <<<<"a","b","-","1">>>>, body_html |-> <<<<"<","p",">","2"," ","l","p","m","<","/","p",">">>>>,
      variants |-> << [grams |-> <<<<"6","2","0","0">>>>, sku |-> <<<<"s","1">>>>, price |-> <<<<"1","0">>>>],
                      [grams |-> NaN, sku |-> NaN, price |-> NaN] >>],
     [title |-> <<<<"Z","q">>>>, handle |-> NaN, body_html |-> NaN, variants |-> <<>>],
     [title |-> NaN, handle |-> <<<<"z","q">>>>, body_html |-> <<<<"9"," ","k","g">>>>,
      variants |-> << [grams |-> <<<<"0">>>>, sku |-> NaN, price |-> NaN] >>] >>

Listings == [n \in {"listing_a", "listing_none"} |->
               IF n = "listing_a" THEN ListingA ELSE <<>>]

\* What os.path.exists and pd.read_csv find at csv_path, and what
\* ShopifyClient().list_products() does.
CsvSources == {"missing", "unreadable"} \cup DOMAIN CsvFiles
ApiSources == {"fails"} \cup DOMAIN Listings
SourcesOf(m) == IF m = "api" THEN ApiSources ELSE CsvSources

\* ------------------------------------------------------------------------
\* Loaders
\* ------------------------------------------------------------------------

\* ProductQASystem._load_from_csv: [ok, df]; pd.read_csv raises on a file it
\* cannot read or parse, and self.df stays what it was.
LoadFromCsv(src, df) ==
  IF src = "missing" THEN [ok |-> TRUE, df |-> EmptyFrame]
  ELSE IF src = "unreadable" THEN [ok |-> FALSE, df |-> df]
  ELSE [ok |-> TRUE, df |-> CsvFiles[src]]

ApiColumns == BaseColumns \cup {"Variant SKU", "Variant Price"}

\* p.get(key, "") or "": a str in every case.
OrEmpty(cell) == IF cell = <<>> THEN << <<>> >> ELSE cell

\* The rows of lines 58 to 71: one for each variant of each product.
RECURSIVE ApiRows(_)
ApiRows(products) ==
  IF products = <<>> THEN <<>>
  ELSE LET p == products[1]
       IN  [i \in DOMAIN p.variants |->
              [c \in ApiColumns |->
                 CASE c = "Title" -> OrEmpty(p.title)
                   [] c = "Handle" -> OrEmpty(p.handle)
                   [] c = "Body (HTML)" -> OrEmpty(p.body_html)
                   [] c = "Variant Grams" -> p.variants[i].grams
                   [] c = "Variant Weight Unit" -> << <<"g">> >>
                   [] c = "Variant SKU" -> p.variants[i].sku
                   [] c = "Variant Price" -> p.variants[i].price]]
             \o ApiRows(Tail(products))

\* ProductQASystem._load_from_api: every failure is caught.
LoadFromApi(src) ==
  IF src = "fails" THEN [ok |-> TRUE, df |-> EmptyFrame]
  ELSE LET rows == ApiRows(Listings[src])
       IN  [ok |-> TRUE,
            df |-> IF rows # <<>> THEN [cols |-> ApiColumns, rows |-> rows]
                                  ELSE EmptyFrame]

\* SHOPIFY_MODE, lowered, chooses the loader (lines 38 to 42).
Load(m, src, df) == IF m = "api" THEN LoadFromApi(src) ELSE LoadFromCsv(src, df)

\* reload() with a _build_index that appends the description of a group to
\* the description the entry of its title had.
ReloadAllAppending(m, src, bs4, e) ==
  LET l == Load(m, src, e.df)
      p == PrepDataframe(l.df, bs4)
      b == BuildIndex(p.df, e.titles)
      Appended(t) ==
        IF t \in DOMAIN e.product_groups
          THEN [b.groups[t] EXCEPT !.desc = JoinSpace(<< e.product_groups[t].desc, @ >>)]
          ELSE b.groups[t]
  IN  IF ~l.ok \/ ~p.ok
        THEN [raised |-> TRUE, df |-> e.df,
              product_groups |-> e.product_groups, titles |-> e.titles]
        ELSE [raised |-> ~b.ok, df |-> p.df,
              product_groups |-> [t \in DOMAIN b.groups |-> Appended(t)],
              titles |-> b.titles]

\* ProductQASystem.reload(), run from start to end against the engine's
\* fields e = [df, product_groups, titles]: [raised, df, product_groups,
\* titles], the fields as the call leaves them.
ReloadAll(m, src, bs4, e) ==
  LET l == Load(m, src, e.df)
      p == PrepDataframe(l.df, bs4)
      b == BuildIndex(p.df, e.titles)
  IN  IF ~l.ok
        THEN [raised |-> TRUE, df |-> e.df,
              product_groups |-> e.product_groups, titles |-> e.titles]
      ELSE IF ~p.ok
        THEN [raised |-> TRUE, df |-> p.df,
              product_groups |-> e.product_groups, titles |-> e.titles]
      ELSE [raised |-> ~b.ok, df |-> p.df,
            product_groups |-> b.groups, titles |-> b.titles]

\* ------------------------------------------------------------------------
\* The inputs
\* ------------------------------------------------------------------------

\* The synonym table unchanged once at construction: no file (or a malformed
\* one) gives the empty table.  Its keys are not normalised by the loader.
SynonymTable ==
  (<<"z","z">> :> <<"A","b">>) @@ (<<"q","q">> :> <<"N","o","p","e">>) @@ (<<"a","b">> :> <<"C","a","b">>) @@ (<<"e","e">> :> <<>>)
    @@ (<<"/","p","r","o","d","u","c","t","s","/","a","b","c">> :> <<"C","a","b">>) @@ (<<"Z","Q">> :> <<"Z","q">>)

NoSynonyms == [k \in {} |-> <<>>]

SynonymTables == {NoSynonyms, SynonymTable}

\* The product part and the attribute part of the questions asked.
MainProducts == { <<"a","b">>, <<"/","p","r","o","d","u","c","t","s","/","A","b","c"," ","a","b">>, <<"c","a","b">> }

AttributeParts ==
  { <<>>, <<" ","w","e","i","g","h","t">>, <<" ","s","i","z","e">>, <<" ","H","O","U","R","S">>, <<" ","f","l","o","w">>, <<" ","s","i","z","e"," ","k","g">>, <<" ","p","u","l","s","e"," ","h","o","u","r","s">> }

OtherQuestions ==
  { <<>>, <<"z","z">>, <<" ","Z","Z"," ">>, <<"q","q">>, <<"x","y">>, <<"x","y"," ","s","i","z","e">>, <<"Z","Q">>, <<"z","q"," ","w","e","i","g","h">>,
    <<"/","p","r","o","d","u","c","t","s","/","a","b","c">>, <<"s","e","e"," ","/","p","r","o","d","u","c","t","s","/","A","B","-","1"," ","w","e","i","g","h","t">>, <<"/","p","r","o","d","u","c","t","s","/","n","o","p","e"," ","a","b">>,
    <<"/","p","r","o","d","u","c","t","s","/","z","z"," ","/","p","r","o","d","u","c","t","s","/","a","b","c">>, <<"/","p","r","o","d","u","c","t","s","/","a","b","c","\\">>, <<"/","p","r","o","d","u","c","t","s","/","a","b">> }

Questions ==
  {p \o a : p \in MainProducts, a \in AttributeParts} \cup OtherQuestions

\* The queries find_best_title is called with directly.
Queries ==
  { <<>>, <<"z","z">>, <<" ","Z","Z"," ">>, <<"q","q">>, <<"e","e">>, <<"a","b">>, <<" ","A","b">>, <<"x","y">>, <<"a","b"," ","w","e","i","g","h","t">>, <<"Z","Q">>, <<"b">> }


VARIABLES
  mode,            \* SHOPIFY_MODE of the process, lowered: "csv" or "api"
  source,          \* what the source of that mode is now
  HAVE_BS4,        \* whether bs4 could be imported
  synonyms,        \* self.synonyms
  df,              \* self.df
  product_groups,  \* self.product_groups
  titles,          \* self.titles
  request,         \* the call in progress: idle, pending or done with its outcome
  unchanged,       \* the source is as the latest reload() call read it (history)
  threads          \* the two handler threads of the interleaved specification

vars == <<mode, source, HAVE_BS4, synonyms, df, product_groups, titles, request,
          unchanged, threads>>

Engine == [df |-> df, product_groups |-> product_groups, titles |-> titles]

\* The fields before the first reload(): __init__ sets none of them.
Unset == [df |-> EmptyFrame, product_groups |-> EmptyGroups, titles |-> <<>>]

Idle == [phase |-> "idle"]

\* Both handler threads at rest: rpc and apc are where the reload and the
\* answer thread stand, keys the group keys the loop of _build_index has
\* still to visit, before the dict reload() found, q, title and suggestions
\* the locals of answer(), out what the latest answer() ended with.
NoThreads ==
  [rpc |-> "idle", keys |-> <<>>, before |-> EmptyGroups,
   apc |-> "idle", q |-> <<>>, title |-> <<>>, suggestions |-> <<>>,
   out |-> [raised |-> FALSE, result |-> "none"]]

\* The state once ProductQASystem(csv_path) is constructed: the synonyms are
\* unchanged and the first reload() has returned (if it raises there is no
\* engine, and the app does not start).
Init ==
  /\ mode \in {"csv", "api"}
  /\ source \in SourcesOf(mode)
  /\ HAVE_BS4 \in BOOLEAN
  /\ synonyms \in SynonymTables
  /\ LET r == ReloadAll(mode, source, HAVE_BS4, Unset)
     IN  /\ ~r.raised
         /\ df = r.df
         /\ product_groups = r.product_groups
         /\ titles = r.titles
  /\ request = Idle
  /\ unchanged = TRUE
  /\ threads = NoThreads

\* The file at csv_path is replaced, removed or damaged, or the API starts
\* or stops answering.
SourceChange(s) ==
  /\ s # source
  /\ source' = s
  /\ unchanged' = FALSE
  /\ UNCHANGED <<mode, HAVE_BS4, synonyms, df, product_groups, titles, request, threads>>

\* A caller calls answer(q) (POST /ask).
Ask(q) ==
  /\ request.phase = "idle"
  /\ request' = [phase |-> "pending", op |-> "answer", q |-> q]
  /\ UNCHANGED <<mode, source, HAVE_BS4, synonyms, df, product_groups, titles,
                 unchanged, threads>>

\* ProductQASystem.answer runs.
HandleAsk ==
  /\ request.phase = "pending"
  /\ request.op = "answer"
  /\ request' = [phase |-> "done", op |-> "answer", q |-> request.q,
                 out |-> Answer(synonyms, product_groups, titles, request.q)]
  /\ UNCHANGED <<mode, source, HAVE_BS4, synonyms, df, product_groups, titles,
                 unchanged, threads>>

\* A caller calls find_best_title(q).
CallFindBestTitle(q) ==
  /\ request.phase = "idle"
  /\ request' = [phase |-> "pending", op |-> "find_best_title", q |-> q]
  /\ UNCHANGED <<mode, source, HAVE_BS4, synonyms, df, product_groups, titles,
                 unchanged, threads>>

\* ProductQASystem.find_best_title runs.
HandleFindBestTitle ==
  /\ request.phase = "pending"
  /\ request.op = "find_best_title"
  /\ request' = [phase |-> "done", op |-> "find_best_title", q |-> request.q,
                 out |-> FindBestTitle(synonyms, product_groups, titles, request.q)]
  /\ UNCHANGED <<mode, source, HAVE_BS4, synonyms, df, product_groups, titles,
                 unchanged, threads>>

\* ProductQASystem.reload runs (POST /reload), from start to end.
Reload ==
  /\ request.phase = "idle"
  /\ LET r == ReloadAll(mode, source, HAVE_BS4, Engine)
     IN  /\ df' = r.df
         /\ product_groups' = r.product_groups
         /\ titles' = r.titles
         /\ request' = [phase |-> "done", op |-> "reload", q |-> <<>>,
                        out |-> [raised |-> r.raised, same |-> unchanged]]
  /\ unchanged' = TRUE
  /\ UNCHANGED <<mode, source, HAVE_BS4, synonyms, threads>>

\* The call returns to its caller.
Return ==
  /\ request.phase = "done"
  /\ request' = Idle
  /\ UNCHANGED <<mode, source, HAVE_BS4, synonyms, df, product_groups, titles,
                 unchanged, threads>>

Next ==
  \/ \E s \in SourcesOf(mode) : SourceChange(s)
  \/ \E q \in Questions : Ask(q)
  \/ HandleAsk
  \/ \E q \in Queries : CallFindBestTitle(q)
  \/ HandleFindBestTitle
  \/ Reload
  \/ Return

\* The engine called by one caller at a time.
Spec == Init /\ [][Next]_vars

\* ------------------------------------------------------------------------
\* The /reload and /ask handlers on two threads.  Both are plain def
\* handlers, which FastAPI runs on its thread pool, and both use the one
\* engine qa of app.py without a lock.  A step is one read or write of a
\* field of the engine.
\* ------------------------------------------------------------------------

ConcQuestions == { <<"a","b">>, <<"c","a","b"," ","w","e","i","g","h","t">>, <<"/","p","r","o","d","u","c","t","s","/","a","b","-","1">>, <<"z","z">> }

\* POST /reload arrives: reload() is called.
RStart ==
  /\ threads.rpc = "idle"
  /\ threads' = [threads EXCEPT !.rpc = "load", !.before = product_groups]
  /\ UNCHANGED <<mode, source, HAVE_BS4, synonyms, df, product_groups, titles,
                 request, unchanged>>

\* Lines 38 to 42: the loader sets self.df, or raises.
RLoad ==
  /\ threads.rpc = "load"
  /\ LET l == Load(mode, source, df)
     IN  /\ df' = l.df
         /\ threads' = [threads EXCEPT !.rpc = IF l.ok THEN "prep" ELSE "idle"]
  /\ unchanged' = TRUE
  /\ UNCHANGED <<mode, source, HAVE_BS4, synonyms, product_groups, titles, request>>

\* Line 43: _prep_dataframe.
RPrep ==
  /\ threads.rpc = "prep"
  /\ LET p == PrepDataframe(df, HAVE_BS4)
     IN  /\ df' = p.df
         /\ threads' = [threads EXCEPT !.rpc = IF p.ok THEN "build" ELSE "idle"]
  /\ UNCHANGED <<mode, source, HAVE_BS4, synonyms, product_groups, titles,
                 request, unchanged>>

\* Line 103: self.product_groups = {}.
RBuildStart ==
  /\ threads.rpc = "build"
  /\ product_groups' = EmptyGroups
  /\ threads' = [threads EXCEPT !.rpc = "groups", !.keys = GroupKeys(df)]
  /\ UNCHANGED <<mode, source, HAVE_BS4, synonyms, df, titles, request, unchanged>>

\* Lines 104 to 115: one turn of the loop, which adds one entry or raises.
RBuildGroup ==
  /\ threads.rpc = "groups"
  /\ threads.keys # <<>>
  /\ LET b == BuildGroup(df, threads.keys[1], product_groups)
     IN  /\ product_groups' = b.groups
         /\ threads' = IF b.ok THEN [threads EXCEPT !.keys = Tail(threads.keys)]
                               ELSE [threads EXCEPT !.rpc = "idle", !.keys = <<>>]
  /\ UNCHANGED <<mode, source, HAVE_BS4, synonyms, df, titles, request, unchanged>>

\* Line 116: self.titles = list(self.product_groups.keys()); reload() returns.
RBuildTitles ==
  /\ threads.rpc = "groups"
  /\ threads.keys = <<>>
  /\ titles' = Keys(product_groups)
  /\ threads' = [threads EXCEPT !.rpc = "idle"]
  /\ UNCHANGED <<mode, source, HAVE_BS4, synonyms, df, product_groups, request,
                 unchanged>>

\* POST /ask arrives: answer(question) is called; lines 198 and 199.
AStart(question) ==
  /\ threads.apc = "idle"
  /\ threads' = [threads EXCEPT !.apc = "url", !.q = Strip(question),
                                !.title = <<>>, !.suggestions = <<>>]
  /\ UNCHANGED <<mode, source, HAVE_BS4, synonyms, df, product_groups, titles,
                 request, unchanged>>

\* Line 202: resolve_product_from_url reads self.product_groups.
AResolveUrl ==
  /\ threads.apc = "url"
  /\ LET url == ResolveProductFromUrl(product_groups, threads.q)
     IN  threads' = [threads EXCEPT !.title = url,
                                    !.apc = IF url # <<>> THEN "lookup" ELSE "alias"]
  /\ UNCHANGED <<mode, source, HAVE_BS4, synonyms, df, product_groups, titles,
                 request, unchanged>>

\* Lines 137 to 139: find_best_title reads self.synonyms and
\* self.product_groups.
AAlias ==
  /\ threads.apc = "alias"
  /\ LET alias == SynonymAlias(synonyms, product_groups, threads.q)
     IN  threads' = [threads EXCEPT !.title = alias, !.suggestions = alias,
                                    !.apc = IF alias # <<>> THEN "lookup" ELSE "scores"]
  /\ UNCHANGED <<mode, source, HAVE_BS4, synonyms, df, product_groups, titles,
                 request, unchanged>>

\* Lines 140 to 143: find_best_title reads self.titles.
AScores ==
  /\ threads.apc = "scores"
  /\ LET top == TopTitles(titles, threads.q)
     IN  threads' = [threads EXCEPT
                       !.title = IF top # <<>> THEN << top[1] >> ELSE <<>>,
                       !.suggestions = Take(top, MaxSuggestions),
                       !.apc = "lookup"]
  /\ UNCHANGED <<mode, source, HAVE_BS4, synonyms, df, product_groups, titles,
                 request, unchanged>>

\* Lines 207 to 251: line 215 reads self.product_groups; answer() returns
\* or raises.
ALookup ==
  /\ threads.apc = "lookup"
  /\ threads' = [threads EXCEPT
                   !.apc = "idle",
                   !.out = AnswerResolved(product_groups, threads.q, threads.title,
                                          threads.suggestions)]
  /\ UNCHANGED <<mode, source, HAVE_BS4, synonyms, df, product_groups, titles,
                 request, unchanged>>

\* The exports the file at csv_path is switched between while the two
\* threads run: both load without error.
ConcSources == {"catalog_a", "catalog_b"}

ConcInit ==
  /\ Init
  /\ mode = "csv"
  /\ source \in ConcSources
  /\ HAVE_BS4
  /\ synonyms = SynonymTable

ConcNext ==
  \/ \E s \in ConcSources : SourceChange(s)
  \/ RStart \/ RLoad \/ RPrep \/ RBuildStart \/ RBuildGroup \/ RBuildTitles
  \/ \E q \in ConcQuestions : AStart(q)
  \/ AResolveUrl \/ AAlias \/ AScores \/ ALookup

\* The engine called by the two handler threads at once.
ConcSpec == ConcInit /\ [][ConcNext]_vars

\* ------------------------------------------------------------------------
\* The properties
\* ------------------------------------------------------------------------

\* C1: reload() replaces the index as one atomic step.  While a reload() is
\* running, an answer() call that is about to read the engine finds either
\* the complete index reload() started from or the complete index it is
\* building, and a titles list that is the keys of product_groups.
C1_ReloadIsAtomic ==
  (threads.rpc # "idle" /\ threads.apc # "idle") =>
     /\ titles = Keys(product_groups)
     /\ \/ product_groups = threads.before
        \/ /\ threads.rpc = "groups"
           /\ product_groups = BuildGroups(df, GroupKeys(df), EmptyGroups).groups

\* C2: reload() never propagates a failure to its caller.  Whatever the
\* source is, a reload() that has ended has not raised, and it has left an
\* index whose titles are the keys of product_groups.
C2_ReloadNeverRaises ==
  (request.phase = "done" /\ request.op = "reload") =>
     /\ ~request.out.raised
     /\ titles = Keys(product_groups)

\* C3: answer() never raises.  Every answer() that has ended has returned a
\* result that carries ok and answer.
C3_AnswerNeverRaises ==
  (request.phase = "done" /\ request.op = "answer") =>
     /\ ~request.out.raised
     /\ {"ok", "answer"} \subseteq DOMAIN request.out.result

\* C4: a /products/<slug> substring whose slug is a handle of the catalog
\* decides the product.  The slug is the run of letters, digits and hyphens
\* that follows "/products/"; when some slug of the question is, ignoring
\* case, a handle of an entry, answer() has resolved a title that owns the
\* handle of a slug of the question.
C4_UrlHandleWins ==
  (request.phase = "done" /\ request.op = "answer") =>
     LET q == Strip(request.q)
         SlugChar(c) == IsLower(c) \/ IsUpper(c) \/ IsDigit(c) \/ c = "-"
         starts == {i \in DOMAIN q : StartsAtI(q, i, <<"/","p","r","o","d","u","c","t","s","/">>)}
         SlugOf(i) ==
           LET ends == {j \in (i + 9)..Len(q) : \A k \in (i + 10)..j : SlugChar(q[k])}
           IN  Lower(Slice(q, i + 10, SetMax(ends)))
         slugs == {SlugOf(i) : i \in starts} \ {<<>>}
         Owns(t) == \E k \in DOMAIN product_groups[t].handles :
                       Lower(product_groups[t].handles[k]) \in slugs
     IN  (\E t \in DOMAIN product_groups : Owns(t)) =>
            /\ ~request.out.raised
            /\ "product" \in DOMAIN request.out.result
            /\ Owns(request.out.result.product)

\* C5: a synonym key whose title is in the index decides find_best_title.
\* When the lowercased, trimmed query is a key of the table and the mapped
\* title is a key of product_groups, the call returns that title as best and
\* as the only suggestion, whatever the scores are; otherwise it returns
\* what fuzzy scoring gives: nothing when no title reaches the cutoff, else
\* a title of the highest score.
C5_SynonymOverridesFuzzy ==
  (request.phase = "done" /\ request.op = "find_best_title") =>
     LET key == Strip(Lower(request.q))
         Score(i) == Confidence(request.q, titles[i])
         scoring == {i \in DOMAIN titles : Score(i) >= CutoffScore}
     IN  IF key \in DOMAIN synonyms /\ synonyms[key] \in DOMAIN product_groups
           THEN request.out = [best |-> << synonyms[key] >>,
                               suggestions |-> << synonyms[key] >>]
         ELSE IF scoring = {}
           THEN request.out = [best |-> <<>>, suggestions |-> <<>>]
         ELSE /\ request.out.best # <<>>
              /\ \E i \in scoring : /\ titles[i] = request.out.best[1]
                                    /\ \A j \in scoring : Score(j) <= Score(i)

\* find_best_title has returned the title of a synonym for a query that is
\* the key only once lowered and trimmed, while no title reaches the cutoff.
C5_Witness ==
  /\ request.phase = "done"
  /\ request.op = "find_best_title"
  /\ Strip(Lower(request.q)) # request.q
  /\ Strip(Lower(request.q)) \in DOMAIN synonyms
  /\ request.out.best = << synonyms[Strip(Lower(request.q))] >>
  /\ \A i \in DOMAIN titles : Confidence(request.q, titles[i]) < CutoffScore

\* C6: reload() is idempotent on unchanged source data.  A reload() of a
\* source that has not changed since the reload() before it leaves an
\* engine that answers every question as the engine did before the call.
C6_ReloadIdempotent ==
  [][(/\ request.phase = "idle"
      /\ request'.phase = "done"
      /\ request'.op = "reload"
      /\ unchanged)
       => \A q \in Questions :
            Answer(synonyms, product_groups', titles', q)
              = Answer(synonyms, product_groups, titles, q)]_vars

\* A second reload() of the same source has ended and left a catalog.
C6_Witness ==
  /\ request.phase = "done"
  /\ request.op = "reload"
  /\ request.out.same
  /\ ~request.out.raised
  /\ product_groups # EmptyGroups

\* C7: weight extraction prefers variant data.  For every entry of the
\* index with a positive variant weight, _extract_weight returns the least
\* positive weight in kilograms, tagged as variant data, whatever the texts
\* of the entry are; an entry with none gets its weight from the text
\* pattern or gets none; and a weight answer carries the extractor's value.
C7_VariantWeightFirst ==
  /\ \A t \in DOMAIN product_groups :
       LET info == product_groups[t]
           positive == {g \in Range(info.grams) : g > 0}
           least == CHOOSE g \in positive : \A h \in positive : g <= h
           NoText == [info EXCEPT !.specs = <<>>, !.features = <<>>, !.desc = <<>>]
       IN  IF positive # {}
             THEN /\ ExtractWeight(info)
                       = << FormatTenths(GramsToTenths(least))
                              \o <<" ","k","g"," ","(","a","p","p","r","o","x",".",","," ","f","r","o","m"," ","v","a","r","i","a","n","t"," ","d","a","t","a",")">> >>
                  /\ ExtractWeight(NoText) = ExtractWeight(info)
             ELSE ExtractWeight(info) # <<>>
                    <=> Search(WeightPattern, InfoText(info)) # <<>>
  /\ (/\ request.phase = "done"
      /\ request.op = "answer"
      /\ ~request.out.raised
      /\ "attribute" \in DOMAIN request.out.result
      /\ request.out.result.attribute = AttrWeight)
       => LET r == request.out.result
              w == ExtractWeight(product_groups[r.product])
          IN  IF w = <<>> THEN "value" \notin DOMAIN r
                          ELSE "value" \in DOMAIN r /\ r.value = w[1]

\* answer() has given the least positive variant weight of an entry whose
\* text states another weight.
C7_Witness ==
  /\ request.phase = "done"
  /\ request.op = "answer"
  /\ ~request.out.raised
  /\ "value" \in DOMAIN request.out.result
  /\ request.out.result.value = <<"6",".","2"," ","k","g"," ","(","a","p","p","r","o","x",".",","," ","f","r","o","m"," ","v","a","r","i","a","n","t"," ","d","a","t","a",")">>
  /\ Len(product_groups[request.out.result.product].grams) > 1
  /\ Search(WeightPattern, InfoText(product_groups[request.out.result.product])) # <<>>

\* C8: attribute classification is pure precedence over the lowercased
\* question.  The attribute of a result is weight if a weight keyword
\* occurs in the question, else dimensions if a dimensions keyword occurs,
\* else battery, else flow, else general.
C8_ClassificationPrecedence ==
  (/\ request.phase = "done"
   /\ request.op = "answer"
   /\ ~request.out.raised
   /\ "attribute" \in DOMAIN request.out.result)
    => LET q_l == Lower(Strip(request.q))
           Has(keywords) == \E k \in keywords : Contains(q_l, k)
       IN  request.out.result.attribute =
             IF Has(WeightKeywords) THEN AttrWeight
             ELSE IF Has(DimensionsKeywords) THEN AttrDimensions
             ELSE IF Has(BatteryKeywords) THEN AttrBattery
             ELSE IF Has(FlowKeywords) THEN AttrFlow
             ELSE AttrGeneral

\* answer() has classified a question that holds the keywords of two sets,
\* neither of them the weight set, as the earlier of the two.
C8_Witness ==
  /\ request.phase = "done"
  /\ request.op = "answer"
  /\ ~request.out.raised
  /\ "attribute" \in DOMAIN request.out.result
  /\ request.out.result.attribute = AttrBattery
  /\ AnyIn(BatteryKeywords, Lower(request.q))
  /\ AnyIn(FlowKeywords, Lower(request.q))

\* C9: the shape of a result of answer().  ok is true exactly when a
\* product was resolved and the attribute is general or its extractor
\* returned a value; value is present only in ok results of an extractable
\* attribute; product and attribute are present exactly when a product was
\* resolved; and a result with no product has confidence 0.
C9_ResultShape ==
  (/\ request.phase = "done"
   /\ request.op = "answer"
   /\ ~request.out.raised)
    => LET r == request.out.result
           q == Strip(request.q)
           resolved == ResolveProduct(synonyms, product_groups, titles, q).best
           attr == ClassifyAttribute(Lower(q))
           val == Extract(attr, product_groups[resolved[1]])
       IN  /\ r.ok <=> (resolved # <<>> /\ (attr = AttrGeneral \/ val # <<>>))
           /\ "value" \in DOMAIN r => (r.ok /\ r.attribute \in Extractable)
           /\ "product" \in DOMAIN r <=> resolved # <<>>
           /\ "attribute" \in DOMAIN r <=> resolved # <<>>
           /\ resolved = <<>> => r.confidence = 0

\* answer() has resolved a product and found no value for the attribute.
C9_Witness ==
  /\ request.phase = "done"
  /\ request.op = "answer"
  /\ ~request.out.raised
  /\ ~request.out.result.ok
  /\ "product" \in DOMAIN request.out.result
  /\ request.out.result.attribute \in Extractable
  /\ "value" \notin DOMAIN request.out.result

\* C10 as stated: find_best_title returns no best exactly when it returns
\* no suggestion; otherwise best is the first suggestion, there are at most
\* 3 suggestions, and each is a title of the index scoring at or above the
\* cutoff; and a product-not-found result carries no suggestion.
C10_SuggestionsClearCutoff ==
  /\ (request.phase = "done" /\ request.op = "find_best_title")
      => LET o == request.out
         IN  /\ o.best = <<>> <=> o.suggestions = <<>>
             /\ o.best # <<>> => o.best[1] = o.suggestions[1]
             /\ Len(o.suggestions) <= 3
             /\ \A i \in DOMAIN o.suggestions :
                  /\ o.suggestions[i] \in Range(titles)
                  /\ Confidence(request.q, o.suggestions[i]) >= CutoffScore
  /\ (/\ request.phase = "done"
      /\ request.op = "answer"
      /\ ~request.out.raised
      /\ "product" \notin DOMAIN request.out.result)
      => request.out.result.suggestions = <<>>

\* C10, amended: as above, but each suggestion is either the title the
\* synonym table maps the lowercased, trimmed query to, a key of
\* product_groups returned as the only suggestion, or an entry of
\* self.titles scoring at or above the cutoff.
C10_SuggestionsClearCutoffOrAlias ==
  /\ (request.phase = "done" /\ request.op = "find_best_title")
      => LET o == request.out
             key == Strip(Lower(request.q))
         IN  /\ o.best = <<>> <=> o.suggestions = <<>>
             /\ o.best # <<>> => o.best[1] = o.suggestions[1]
             /\ Len(o.suggestions) <= 3
             /\ \/ /\ key \in DOMAIN synonyms
                   /\ synonyms[key] \in DOMAIN product_groups
                   /\ o.suggestions = << synonyms[key] >>
                \/ \A i \in DOMAIN o.suggestions :
                     /\ o.suggestions[i] \in Range(titles)
                     /\ Confidence(request.q, o.suggestions[i]) >= CutoffScore
  /\ (/\ request.phase = "done"
      /\ request.op = "answer"
      /\ ~request.out.raised
      /\ "product" \notin DOMAIN request.out.result)
      => request.out.result.suggestions = <<>>

\* find_best_title has returned 3 suggestions of the 4 titles that reach the
\* cutoff.
C10_Witness ==
  /\ request.phase = "done"
  /\ request.op = "find_best_title"
  /\ Len(request.out.suggestions) = 3
  /\ Cardinality({i \in DOMAIN titles :
                    Confidence(request.q, titles[i]) >= CutoffScore}) = 4
====
